---------------------------- MODULE Spec2Model ----------------------------
(***************************************************************************)
(* A model of the weather agent: the turn orchestrator of agent_client.py  *)
(* (run_agent_turn) and the two tools of server.py (get_current_weather,   *)
(* get_forecast).                                                          *)
(*                                                                         *)
(* Text is modelled as a sequence of pieces: an f-string is the sequence   *)
(* of its literal parts and interpolated values, so that two texts are     *)
(* equal exactly when they were built from the same parts.                 *)
(***************************************************************************)
EXTENDS Integers, Sequences, FiniteSets

VARIABLES
    messages,      \* st.session_state.messages: the transcript
    pc,            \* where run_agent_turn stands ("idle": no turn running)
    transport,     \* the sse_client context: "none", "open", "closed"
    session,       \* the ClientSession context: "none", "open", "closed"
    mcp_tools,     \* names returned by session.list_tools() in this turn
    tool_calls,    \* assistant_msg.tool_calls of the first model response
    idx,           \* position of the for loop over tool_calls (1-based)
    exc,           \* the exception travelling to the top-level handler
    before,        \* history: the transcript when the current turn began
    events,        \* history: the external operations of the current turn
    st_errors,     \* history: the texts given to st.error in this turn
    SERVER_URL,    \* the configured backend URL (MCP_SERVER_URL or the default)
    probed_url,    \* history: the URL the last health probe was sent to
    \* server.py
    OPENWEATHER_API_KEY,  \* the environment's key ("" when not set)
    s_pc,          \* where the running tool stands ("idle": no call running)
    tool,          \* the tool called: "get_current_weather" or "get_forecast"
    days_arg,      \* history: the days argument the caller passed
    days,          \* get_forecast's days, after line 57-58
    fetched,       \* history: what _get_weather_data met
    forecasts,     \* get_forecast's forecasts list
    seen_dates,    \* get_forecast's seen_dates set
    pos,           \* how many entries of data["list"] the loop has read
    first_pos,     \* history: per date, the position of its first entry read
    result         \* what the tool call gave its caller

client_vars == <<messages, pc, transport, session, mcp_tools, tool_calls, idx, exc,
                 before, events, st_errors, SERVER_URL, probed_url>>

server_vars == <<OPENWEATHER_API_KEY, s_pc, tool, days_arg, days, fetched,
                 forecasts, seen_dates, pos, first_pos, result>>

vars == <<client_vars, server_vars>>

-----------------------------------------------------------------------------
(* Bounds of the model *)

\* A new turn starts only while the transcript is shorter than this.
MaxMessages == 2

\* The longest tool_calls list the model provider returns.
MaxToolCalls == 2

\* The longest data["list"] the weather provider returns.
MaxItems == 6

\* The longest backend root (the URL before its /mcp) built from UrlChars.
MaxRootLen == 4

-----------------------------------------------------------------------------
(* Values *)

\* Python's None as a text / as an exception slot.
None == <<"None">>
NoExc == <<>>

UserInputs == {<<"weather in Paris?">>}

\* The tools server.py registers with @mcp.tool().
ServerTools == {"get_current_weather", "get_forecast"}

ToolNames == {"get_current_weather", "no_such_tool"}
ToolCallIds == {"call_1", "call_2"}

\* tool_call.function.arguments: a JSON object, or text json.loads rejects.
ValidArguments == "{\"city\": \"Paris\"}"
MalformedArguments == "{\"city\": "
ArgumentTexts == {ValidArguments, MalformedArguments}

\* A parsed argument object is the set of its key/value pairs.
EmptyObject == {}

\* json.loads: [ok |-> TRUE, value |-> object] or [ok |-> FALSE].
json_loads(s) ==
    IF s = ValidArguments
    THEN [ok |-> TRUE, value |-> {<<"city", "Paris">>}]
    ELSE IF s = "{}"
    THEN [ok |-> TRUE, value |-> EmptyObject]
    ELSE [ok |-> FALSE, value |-> EmptyObject]

\* The tool calls a response may hold: a well-formed call of a served tool, a
\* call with malformed arguments, a call of a tool the server does not have.
ToolCallValues ==
    {c \in [id : ToolCallIds, name : ToolNames, arguments : ArgumentTexts] :
        c.name \in ServerTools \/ c.arguments = ValidArguments}

RECURSIVE SeqsUpTo(_, _)
SeqsUpTo(S, n) ==
    IF n = 0 THEN {<<>>}
    ELSE LET shorter == SeqsUpTo(S, n - 1)
         IN  shorter \cup {Append(s, x) : s \in {t \in shorter : Len(t) = n - 1}, x \in S}

\* response.choices[0].message of a model call
ModelContents == {<<"It is sunny.">>, None}
FirstResponses ==
    [content : ModelContents, tool_calls : SeqsUpTo(ToolCallValues, MaxToolCalls)]
FinalContents == {<<"Paris is sunny today.">>}

\* Outcomes of httpx.get(<health url>)
ProbeOutcomes ==
    {[raised |-> FALSE, status_code |-> "200", text |-> <<>>],
     [raised |-> FALSE, status_code |-> "500", text |-> <<>>],
     [raised |-> TRUE,  status_code |-> "",    text |-> <<"connect timeout">>]}

\* What session.call_tool(name, args) gives back: a result whose content is a
\* list of content items, or an exception.
TextContent(t) == [type |-> "text", text |-> t]
CallToolOutcomes(name, args) ==
    {[raised |-> TRUE, text |-> <<"call_tool error">>, content |-> <<>>],
     [raised |-> FALSE, text |-> <<>>,
      content |-> IF name \in ServerTools /\ args # EmptyObject
                  THEN <<TextContent("Current weather in Paris: clear sky")>>
                  ELSE <<TextContent("tool error: "), TextContent(name)>>]}

-----------------------------------------------------------------------------
(* The backend URL: a text is here the sequence of its characters *)

\* line 15: the default of MCP_SERVER_URL, "https://mcp-app.onrender.com/mcp"
DefaultServerUrl ==
    <<"h", "t", "t", "p", "s", ":", "/", "/", "m", "c", "p", "-", "a", "p", "p", ".",
      "o", "n", "r", "e", "n", "d", "e", "r", ".", "c", "o", "m", "/", "m", "c", "p">>

\* line 51 and server.py line 78: the streaming mount, and the health path
MountPath == <<"/", "m", "c", "p">>
HealthPath == <<"/", "h", "e", "a", "l", "t", "h">>

\* The characters the other backend roots are made of.
UrlChars == {"/", "m", "c", "p", "a"}

\* The values of MCP_SERVER_URL: the default, and every <root>/mcp.
ServerUrls ==
    {DefaultServerUrl} \cup {root \o MountPath : root \in SeqsUpTo(UrlChars, MaxRootLen)}

\* str.replace(old, new): every occurrence of old, found from the left and
\* not overlapping, becomes new.
RECURSIVE str_replace(_, _, _)
str_replace(s, old, new) ==
    IF Len(s) < Len(old) THEN s
    ELSE IF SubSeq(s, 1, Len(old)) = old
    THEN new \o str_replace(SubSeq(s, Len(old) + 1, Len(s)), old, new)
    ELSE <<Head(s)>> \o str_replace(Tail(s), old, new)

\* line 51: SERVER_URL.replace("/mcp", "/health")
HealthUrl(url) == str_replace(url, MountPath, HealthPath)

-----------------------------------------------------------------------------
(* Helpers of run_agent_turn *)

Event(op, raised) == [op |-> op, raised |-> raised]

\* lines 137-146: output_text += content.text + "\n" for each item
RECURSIVE FormatOutput(_)
FormatOutput(content) ==
    IF content = <<>> THEN <<>>
    ELSE <<IF Head(content).type = "text" THEN Head(content).text ELSE "str(content)",
           "\n">> \o FormatOutput(Tail(content))

UserMessage(user_input) == [role |-> "user", content |-> user_input]

AssistantMessage(content) == [role |-> "assistant", content |-> content]

\* lines 129-133 and 148-152
ToolMessage(tool_call, content) ==
    [role |-> "tool", tool_call_id |-> tool_call.id, content |-> content]

\* line 128
ToolErrorText(tool_name, te) == <<"Tool ", tool_name, " call failed: ">> \o te

\* line 186
AgentErrorText(e) == <<"[agent error] ">> \o e

\* lines 119-121: malformed arguments become {}
ParseArguments(arguments) ==
    LET parsed == json_loads(IF arguments = "" THEN "{}" ELSE arguments)
    IN  IF parsed.ok THEN parsed.value ELSE EmptyObject

-----------------------------------------------------------------------------
(* The turn *)

ClientInit ==
    /\ messages = <<>>
    /\ pc = "idle"
    /\ transport = "none"
    /\ session = "none"
    /\ mcp_tools = {}
    /\ tool_calls = <<>>
    /\ idx = 0
    /\ exc = NoExc
    /\ before = <<>>
    /\ events = <<>>
    /\ st_errors = <<>>
    /\ probed_url = <<>>

\* line 46, on a chat input (line 202-204)
StartTurn(user_input) ==
    /\ pc = "idle"
    /\ Len(messages) < MaxMessages
    /\ messages' = Append(messages, UserMessage(user_input))
    /\ pc' = "probe"
    /\ transport' = "none"
    /\ session' = "none"
    /\ mcp_tools' = {}
    /\ tool_calls' = <<>>
    /\ idx' = 0
    /\ exc' = NoExc
    /\ before' = messages
    /\ events' = <<>>
    /\ st_errors' = <<>>
    /\ UNCHANGED <<SERVER_URL, probed_url>>
    /\ UNCHANGED server_vars

\* lines 49-57
StatusOk_AnyStatus(status_code) == TRUE

\* line 52: the status the probe accepts
StatusOk(status_code) == status_code = "200"

HealthProbe(resp) ==
    /\ pc = "probe"
    /\ events' = Append(events, Event("health", resp.raised \/ resp.status_code # "200"))
    /\ IF resp.raised
       THEN /\ st_errors' = Append(st_errors, <<"Backend health check error: ">> \o resp.text)
            /\ pc' = "idle"
       ELSE IF ~StatusOk(resp.status_code)
       THEN /\ st_errors' = Append(st_errors, <<"Backend health check failed: ", resp.status_code>>)
            /\ pc' = "idle"
       ELSE /\ st_errors' = st_errors
            /\ pc' = "sse_client"
    /\ probed_url' = HealthUrl(SERVER_URL)
    /\ UNCHANGED <<messages, transport, session, mcp_tools, tool_calls, idx, exc, before>>
    /\ UNCHANGED SERVER_URL
    /\ UNCHANGED server_vars

Raise_Swallowed(e) ==
    /\ exc' = NoExc
    /\ pc' = "exit"

\* An exception raised inside the try of line 59 travels to line 183.
Raise(e) ==
    /\ exc' = e
    /\ pc' = "exit"

\* line 61: async with sse_client(SERVER_URL)
SseClientEnter(ok) ==
    /\ pc = "sse_client"
    /\ events' = Append(events, Event("sse_client", ~ok))
    /\ IF ok
       THEN /\ transport' = "open"
            /\ pc' = "session"
            /\ exc' = exc
       ELSE /\ transport' = transport
            /\ Raise(<<"sse connect failed">>)
    /\ UNCHANGED <<messages, session, mcp_tools, tool_calls, idx, before, st_errors>>
    /\ UNCHANGED <<SERVER_URL, probed_url>>
    /\ UNCHANGED server_vars

\* line 62: async with ClientSession(send, recv)
ClientSessionEnter ==
    /\ pc = "session"
    /\ events' = Append(events, Event("session_open", FALSE))
    /\ session' = "open"
    /\ pc' = "initialize"
    /\ UNCHANGED <<messages, transport, mcp_tools, tool_calls, idx, exc, before, st_errors>>
    /\ UNCHANGED <<SERVER_URL, probed_url>>
    /\ UNCHANGED server_vars

\* line 63
Initialize(ok) ==
    /\ pc = "initialize"
    /\ events' = Append(events, Event("initialize", ~ok))
    /\ IF ok
       THEN /\ pc' = "list_tools"
            /\ exc' = exc
       ELSE Raise(<<"initialize failed">>)
    /\ UNCHANGED <<messages, transport, session, mcp_tools, tool_calls, idx, before, st_errors>>
    /\ UNCHANGED <<SERVER_URL, probed_url>>
    /\ UNCHANGED server_vars

\* lines 66-81
ListTools(ok) ==
    /\ pc = "list_tools"
    /\ events' = Append(events, [op |-> "list_tools", raised |-> ~ok, session |-> session])
    /\ IF ok
       THEN /\ mcp_tools' = ServerTools
            /\ pc' = "llm1"
            /\ exc' = exc
       ELSE /\ mcp_tools' = mcp_tools
            /\ Raise(<<"list_tools failed">>)
    /\ UNCHANGED <<messages, transport, session, tool_calls, idx, before, st_errors>>
    /\ UNCHANGED <<SERVER_URL, probed_url>>
    /\ UNCHANGED server_vars


\* lines 68-81: the tool declarations given to the model
OpenAITools(tools) ==
    {[type |-> "function", name |-> t, strict |-> TRUE] : t \in tools}

Normalize_DropTool(ms) == SelectSeq(ms, LAMBDA m : m.role # "tool")

\* lines 85-97 and 156-167: every transcript entry is a dict and passes through
Normalize(ms) == [i \in 1..Len(ms) |-> ms[i]]

DirectReply_Str(assistant_msg) == AssistantMessage(<<"str(assistant_msg)">>)

\* lines 176-181: the reply appended when the response holds no tool call
DirectReply(assistant_msg) == AssistantMessage(assistant_msg.content)

FirstModelCall_NoAssistant(ok, response) ==
    /\ pc = "llm1"
    /\ events' = Append(events,
                    [op |-> "llm", call |-> 1, messages |-> Normalize(messages),
                     tools |-> OpenAITools(mcp_tools), tool_choice |-> "auto",
                     raised |-> ~ok, response |-> response])
    /\ IF ~ok
       THEN /\ Raise(<<"model call 1 failed">>)
            /\ UNCHANGED <<messages, tool_calls, idx>>
       ELSE IF response.tool_calls # <<>>
       THEN /\ messages' = messages
            /\ tool_calls' = response.tool_calls
            /\ idx' = 1
            /\ pc' = "call_tool"
            /\ exc' = exc
       ELSE /\ messages' = Append(messages, DirectReply(response))
            /\ pc' = "exit"
            /\ UNCHANGED <<tool_calls, idx, exc>>
    /\ UNCHANGED <<transport, session, mcp_tools, before, st_errors>>
    /\ UNCHANGED <<SERVER_URL, probed_url>>
    /\ UNCHANGED server_vars

\* lines 100-114 and 176-181: the first model call and the branch on tool_calls
FirstModelCall(ok, response) ==
    /\ pc = "llm1"
    /\ events' = Append(events,
                    [op |-> "llm", call |-> 1, messages |-> Normalize(messages),
                     tools |-> OpenAITools(mcp_tools), tool_choice |-> "auto",
                     raised |-> ~ok, response |-> response])
    /\ IF ~ok
       THEN /\ Raise(<<"model call 1 failed">>)
            /\ UNCHANGED <<messages, tool_calls, idx>>
       ELSE IF response.tool_calls # <<>>
       THEN /\ messages' = Append(messages, AssistantMessage(response.content))
            /\ tool_calls' = response.tool_calls
            /\ idx' = 1
            /\ pc' = "call_tool"
            /\ exc' = exc
       ELSE /\ messages' = Append(messages, DirectReply(response))
            /\ pc' = "exit"
            /\ UNCHANGED <<tool_calls, idx, exc>>
    /\ UNCHANGED <<transport, session, mcp_tools, before, st_errors>>
    /\ UNCHANGED <<SERVER_URL, probed_url>>
    /\ UNCHANGED server_vars

ToolInvoke_Gather ==
    /\ pc = "call_tool"
    /\ events' = Append(events,
                    [op |-> "call_tool", raised |-> FALSE, index |-> idx,
                     name |-> tool_calls[idx].name,
                     args |-> ParseArguments(tool_calls[idx].arguments),
                     session |-> session])
    /\ idx' = IF idx < Len(tool_calls) THEN idx + 1 ELSE idx
    /\ pc' = IF idx < Len(tool_calls) THEN "call_tool" ELSE "await_tool"
    /\ UNCHANGED <<messages, transport, session, mcp_tools, tool_calls, exc,
                   before, st_errors>>
    /\ UNCHANGED <<SERVER_URL, probed_url>>
    /\ UNCHANGED server_vars

\* lines 116-125: the loop takes the next tool call and awaits session.call_tool
ToolInvoke ==
    /\ pc = "call_tool"
    /\ LET tool_call == tool_calls[idx]
           tool_args == ParseArguments(tool_call.arguments)
       IN  events' = Append(events,
                        [op |-> "call_tool", raised |-> FALSE, index |-> idx,
                         name |-> tool_call.name, args |-> tool_args,
                         session |-> session])
    /\ pc' = "await_tool"
    /\ UNCHANGED <<messages, transport, session, mcp_tools, tool_calls, idx, exc,
                   before, st_errors>>
    /\ UNCHANGED <<SERVER_URL, probed_url>>
    /\ UNCHANGED server_vars

AfterToolCall_Break(i) == "llm2"

\* Where the loop goes after the tool message of tool_calls[i] (lines 116, 134, 154)
AfterToolCall(i) == IF i < Len(tool_calls) THEN "call_tool" ELSE "llm2"

ToolRaised_Propagates(outcome) ==
    /\ outcome.raised
    /\ Raise(outcome.text)
    /\ UNCHANGED <<messages, idx>>

\* lines 126-134: session.call_tool raised; the error becomes a tool message
ToolRaised(outcome) ==
    /\ outcome.raised
    /\ messages' = Append(messages,
          ToolMessage(tool_calls[idx], ToolErrorText(tool_calls[idx].name, outcome.text)))
    /\ idx' = idx + 1
    /\ pc' = AfterToolCall(idx)
    /\ exc' = exc

\* lines 136-152: session.call_tool returned; its text becomes a tool message
ToolReturned(outcome) ==
    /\ ~outcome.raised
    /\ messages' = Append(messages,
          ToolMessage(tool_calls[idx], FormatOutput(outcome.content)))
    /\ idx' = idx + 1
    /\ pc' = AfterToolCall(idx)
    /\ exc' = exc

\* lines 125-152: the awaited session.call_tool completes
ToolComplete(outcome) ==
    /\ pc = "await_tool"
    /\ outcome \in CallToolOutcomes(tool_calls[idx].name,
                                    ParseArguments(tool_calls[idx].arguments))
    /\ events' = Append(events, [op |-> "tool_done", raised |-> outcome.raised,
                                 index |-> idx, outcome |-> outcome])
    /\ \/ ToolRaised(outcome)
       \/ ToolReturned(outcome)
    /\ UNCHANGED <<transport, session, mcp_tools, tool_calls, before, st_errors>>
    /\ UNCHANGED <<SERVER_URL, probed_url>>
    /\ UNCHANGED server_vars

\* lines 154-174
SecondModelCall(ok, final_content) ==
    /\ pc = "llm2"
    /\ events' = Append(events,
                    [op |-> "llm", call |-> 2, messages |-> Normalize(messages),
                     tools |-> {}, tool_choice |-> "",
                     raised |-> ~ok,
                     response |-> [content |-> final_content, tool_calls |-> <<>>]])
    /\ IF ok
       THEN /\ messages' = Append(messages, AssistantMessage(final_content))
            /\ pc' = "exit"
            /\ exc' = exc
       ELSE /\ Raise(<<"model call 2 failed">>)
            /\ messages' = messages
    /\ UNCHANGED <<transport, session, mcp_tools, tool_calls, idx, before, st_errors>>
    /\ UNCHANGED <<SERVER_URL, probed_url>>
    /\ UNCHANGED server_vars

Closed_Leaked(ctx) == ctx

\* __aexit__ of the async with blocks of lines 61-62
Closed(ctx) == IF ctx = "open" THEN "closed" ELSE ctx

HandlerMessages_OnlyShown(e) == <<>>

\* lines 183-186: what the top-level handler appends for exception e
HandlerMessages(e) ==
    IF e = NoExc THEN <<>> ELSE <<AssistantMessage(AgentErrorText(e))>>

ExitTurn_Replaces ==
    /\ pc = "exit"
    /\ session' = Closed(session)
    /\ transport' = Closed(transport)
    /\ events' = Append(events, [op |-> "exit", raised |-> FALSE, session |-> session])
    /\ messages' = IF exc = NoExc THEN messages
                   ELSE before \o HandlerMessages(exc)
    /\ st_errors' = IF exc = NoExc THEN st_errors
                    ELSE Append(st_errors, <<"Connection / agent runtime error: ">> \o exc)
    /\ pc' = "idle"
    /\ UNCHANGED <<mcp_tools, tool_calls, idx, exc, before>>
    /\ UNCHANGED <<SERVER_URL, probed_url>>
    /\ UNCHANGED server_vars

\* The async with blocks of lines 61-62 are left (normally or by an exception),
\* then the handler of lines 183-186 runs if an exception is travelling.
ExitTurn ==
    /\ pc = "exit"
    /\ session' = Closed(session)
    /\ transport' = Closed(transport)
    /\ events' = Append(events, [op |-> "exit", raised |-> FALSE, session |-> session])
    /\ messages' = messages \o HandlerMessages(exc)
    /\ st_errors' = IF exc = NoExc THEN st_errors
                    ELSE Append(st_errors, <<"Connection / agent runtime error: ">> \o exc)
    /\ pc' = "idle"
    /\ UNCHANGED <<mcp_tools, tool_calls, idx, exc, before>>
    /\ UNCHANGED <<SERVER_URL, probed_url>>
    /\ UNCHANGED server_vars

ClientNext ==
    \/ \E u \in UserInputs : StartTurn(u)
    \/ \E r \in ProbeOutcomes : HealthProbe(r)
    \/ \E ok \in BOOLEAN : SseClientEnter(ok)
    \/ ClientSessionEnter
    \/ \E ok \in BOOLEAN : Initialize(ok)
    \/ \E ok \in BOOLEAN : ListTools(ok)
    \/ \E ok \in BOOLEAN, r \in FirstResponses : FirstModelCall(ok, r)
    \/ ToolInvoke
    \/ \E o \in UNION {CallToolOutcomes(n, a) : n \in ToolNames,
                            a \in {ParseArguments(t) : t \in ArgumentTexts}} :
           ToolComplete(o)
    \/ \E ok \in BOOLEAN, c \in FinalContents : SecondModelCall(ok, c)
    \/ ExitTurn

-----------------------------------------------------------------------------
(* server.py: the two tools *)

\* line 57-58: if days > 5: days = 5
MaxDays == 5

\* Calendar dates of the forecast entries; one more than get_forecast keeps.
Dates == 1..(MaxDays + 1)

\* The days arguments tried: negative, zero, within and beyond the clamp.
DaysValues == (0 - 1)..(MaxDays + 2)

\* An entry of data["list"]: well formed (dt_txt "<date> <time>", weather,
\* main), or lacking a key the loop reads.
WellFormedItems == [ok : {TRUE}, dt_txt : {<<d, "12:00:00">> : d \in Dates}]
MalformedItem == [ok |-> FALSE, dt_txt |-> <<0, "">>]
Items == WellFormedItems \cup {MalformedItem}

\* What _get_weather_data meets (lines 31-39): no key, an HTTP error status
\* (raise_for_status), another exception of the request, or the JSON payload.
\* A payload is a dict with all the keys the tool reads ("full"), a dict
\* without them ("partial"), or no dict at all ("other").
FetchOutcomes ==
    {[kind |-> "http_error", text |-> "{\"cod\":\"404\",\"message\":\"city not found\"}"],
     [kind |-> "exception",  text |-> "All connection attempts failed"],
     [kind |-> "json",       text |-> "full"],
     [kind |-> "json",       text |-> "partial"],
     [kind |-> "json",       text |-> "other"]}
MissingKey == [kind |-> "no_key", text |-> "OPENWEATHER_API_KEY is not set."]

NoResult == [raised |-> FALSE, text |-> <<>>, lines |-> <<>>]

Returned(text, lines) == [raised |-> FALSE, text |-> text, lines |-> lines]
Raised(text) == [raised |-> TRUE, text |-> <<text>>, lines |-> <<>>]

ExceptClauses_OnlyHttpStatusError(t, e) ==
    IF e.kind = "http_error"
    THEN Returned(<<IF t = "get_forecast" THEN "Error fetching forecast: "
                    ELSE "Error fetching weather: ", e.text>>, <<>>)
    ELSE Raised(e.text)

\* lines 49-52 and 72-75: the except clauses of both tools
ExceptClauses(t, e) ==
    IF e.kind = "http_error"
    THEN Returned(<<IF t = "get_forecast" THEN "Error fetching forecast: "
                    ELSE "Error fetching weather: ", e.text>>, <<>>)
    ELSE Returned(<<"An error occurred: ", e.text>>, <<>>)

\* line 57-58
Clamp(d) == IF d > MaxDays THEN MaxDays ELSE d

\* line 71: the header; the lines follow it, joined by "\n"
ForecastText(city) == <<"Forecast for ", city, ":\n">>

\* line 48
WeatherText(city) ==
    <<"Current weather in ", city, ": ", "description", ", Temperature: ", "temp",
      " deg C, Humidity: ", "humidity", "%">>

ServerInit ==
    /\ OPENWEATHER_API_KEY \in {"", "key"}
    /\ s_pc = "idle"
    /\ tool = ""
    /\ days_arg = 0
    /\ days = 0
    /\ fetched = MissingKey
    /\ forecasts = <<>>
    /\ seen_dates = {}
    /\ pos = 0
    /\ first_pos = [d \in Dates |-> 0]
    /\ result = NoResult

\* lines 42-43 and 55-58: a tool is called
CallTool(t, d) ==
    /\ s_pc \in {"idle", "done"}
    /\ tool' = t
    /\ days_arg' = d
    /\ days' = IF t = "get_forecast" THEN Clamp(d) ELSE d
    /\ s_pc' = "fetch"
    /\ fetched' = MissingKey
    /\ forecasts' = <<>>
    /\ seen_dates' = {}
    /\ pos' = 0
    /\ first_pos' = [x \in Dates |-> 0]
    /\ result' = NoResult
    /\ UNCHANGED OPENWEATHER_API_KEY
    /\ UNCHANGED client_vars

\* lines 31-39, and what each tool does with the answer up to its loop
Fetch(outcome) ==
    /\ s_pc = "fetch"
    /\ fetched' = IF OPENWEATHER_API_KEY = "" THEN MissingKey ELSE outcome
    /\ IF fetched'.kind # "json"
       THEN /\ result' = ExceptClauses(tool, fetched')
            /\ s_pc' = "done"
       ELSE IF tool = "get_current_weather"
       THEN /\ result' = IF fetched'.text = "full"
                         THEN Returned(WeatherText("Paris"), <<>>)
                         ELSE ExceptClauses(tool,
                                [kind |-> "exception",
                                 text |-> IF fetched'.text = "partial" THEN "'weather'"
                                          ELSE "list indices must be integers"])
            /\ s_pc' = "done"
       ELSE IF fetched'.text = "full"
       THEN /\ result' = result
            /\ s_pc' = "loop"
       ELSE IF fetched'.text = "partial"
       THEN /\ result' = Returned(ForecastText("Paris"), <<>>)
            /\ s_pc' = "done"
       ELSE /\ result' = ExceptClauses(tool,
                            [kind |-> "exception",
                             text |-> "'list' object has no attribute 'get'"])
            /\ s_pc' = "done"
    /\ UNCHANGED <<OPENWEATHER_API_KEY, tool, days_arg, days, forecasts, seen_dates,
                   pos, first_pos>>
    /\ UNCHANGED client_vars

LoopBreaks_OneMore(lines, n) == Len(lines) > n

\* line 69: the test that leaves the loop, made after a line is appended
LoopBreaks(lines, n) == Len(lines) >= n

\* lines 62-70: one pass of the loop over the next entry of data["list"]
LoopItem(item) ==
    /\ s_pc = "loop"
    /\ pos < MaxItems
    /\ pos' = pos + 1
    /\ IF ~item.ok
       THEN /\ result' = ExceptClauses(tool, [kind |-> "exception", text |-> "'dt_txt'"])
            /\ s_pc' = "done"
            /\ UNCHANGED <<forecasts, seen_dates, first_pos>>
       ELSE LET date == item.dt_txt[1]
            IN  /\ first_pos' = IF first_pos[date] = 0
                                THEN [first_pos EXCEPT ![date] = pos + 1]
                                ELSE first_pos
                /\ IF date \notin seen_dates
                   THEN /\ seen_dates' = seen_dates \cup {date}
                        /\ forecasts' = Append(forecasts, [date |-> date, entry |-> pos + 1])
                        /\ IF LoopBreaks(forecasts', days)
                           THEN /\ result' = Returned(ForecastText("Paris"), forecasts')
                                /\ s_pc' = "done"
                           ELSE /\ result' = result
                                /\ s_pc' = s_pc
                   ELSE UNCHANGED <<seen_dates, forecasts, result, s_pc>>
    /\ UNCHANGED <<OPENWEATHER_API_KEY, tool, days_arg, days, fetched>>
    /\ UNCHANGED client_vars

\* lines 62 and 71: data["list"] is exhausted
LoopEnd ==
    /\ s_pc = "loop"
    /\ result' = Returned(ForecastText("Paris"), forecasts)
    /\ s_pc' = "done"
    /\ UNCHANGED <<OPENWEATHER_API_KEY, tool, days_arg, days, fetched, forecasts,
                   seen_dates, pos, first_pos>>
    /\ UNCHANGED client_vars

ServerNext ==
    \/ \E t \in ServerTools, d \in DaysValues :
           (t = "get_forecast" \/ d = 0) /\ CallTool(t, d)
    \/ \E o \in FetchOutcomes : Fetch(o)
    \/ \E item \in Items : LoopItem(item)
    \/ LoopEnd

-----------------------------------------------------------------------------
(* The specifications *)

\* The agent client, the backend's tools at rest.
Init ==
    /\ ClientInit /\ SERVER_URL = DefaultServerUrl
    /\ ServerInit /\ OPENWEATHER_API_KEY = "key"
Next == ClientNext
Spec == Init /\ [][Next]_vars

\* asyncio.run (line 205) drives the coroutine of a started turn to its end:
\* each awaited call comes back, with a result or with an exception, and the
\* turn takes its next step.
TurnStep ==
    \/ pc = "probe" /\ \E r \in ProbeOutcomes : HealthProbe(r)
    \/ pc = "sse_client" /\ \E ok \in BOOLEAN : SseClientEnter(ok)
    \/ pc = "session" /\ ClientSessionEnter
    \/ pc = "initialize" /\ \E ok \in BOOLEAN : Initialize(ok)
    \/ pc = "list_tools" /\ \E ok \in BOOLEAN : ListTools(ok)
    \/ pc = "llm1" /\ \E ok \in BOOLEAN, r \in FirstResponses : FirstModelCall(ok, r)
    \/ pc = "call_tool" /\ ToolInvoke
    \/ pc = "await_tool" /\
          \E o \in CallToolOutcomes(tool_calls[idx].name,
                                    ParseArguments(tool_calls[idx].arguments)) :
              ToolComplete(o)
    \/ pc = "llm2" /\ \E ok \in BOOLEAN, c \in FinalContents : SecondModelCall(ok, c)
    \/ pc = "exit" /\ ExitTurn
SpecLive == Init /\ [][Next]_vars /\ WF_vars(TurnStep)

\* The backend's tools, the agent client at rest.
InitServer == ClientInit /\ SERVER_URL = DefaultServerUrl /\ ServerInit
SpecServer == InitServer /\ [][ServerNext]_vars

\* The health probe under every configured backend URL: turns that go as far
\* as the probe.
InitUrl ==
    /\ ClientInit /\ SERVER_URL \in ServerUrls
    /\ ServerInit /\ OPENWEATHER_API_KEY = "key"
NextUrl ==
    \/ \E u \in UserInputs : StartTurn(u)
    \/ \E r \in ProbeOutcomes : HealthProbe(r)
SpecUrl == InitUrl /\ [][NextUrl]_vars

-----------------------------------------------------------------------------
(* Vocabulary of the properties of run_agent_turn *)

\* The entries the current (or, when idle, the last) turn appended.
TurnMessages == SubSeq(messages, Len(before) + 1, Len(messages))

IsTool(m) == m.role = "tool"
TurnToolMessages == SelectSeq(TurnMessages, IsTool)

EventsOf(op) == {i \in 1..Len(events) : events[i].op = op}
ModelCalls == EventsOf("llm")

HealthFailed == events # <<>> /\ events[1].op = "health" /\ events[1].raised
HealthSucceeded == events # <<>> /\ events[1].op = "health" /\ ~events[1].raised

TurnOver == pc = "idle" /\ events # <<>>

\* The tool-call requests a transcript entry carries.
RequestsIn(m) == IF "tool_calls" \in DOMAIN m THEN m.tool_calls ELSE <<>>

\* Where the turn of transcript position p begins: its user message.
TurnStartOf(p) ==
    CHOOSE q \in 1..p :
        /\ messages[q].role = "user"
        /\ \A r \in (q + 1)..p : messages[r].role # "user"

\* The requests with identifier id that precede position p in p's turn.
PrecedingRequests(p, id) ==
    UNION {{<<q, j>> : j \in {k \in 1..Len(RequestsIn(messages[q])) :
                                RequestsIn(messages[q])[k].id = id}} :
           q \in TurnStartOf(p)..(p - 1)}

-----------------------------------------------------------------------------
(* C1 *)

\* C1: every tool-role message of the transcript carries an identifier that
\* matches exactly one tool-call request preceding it in the transcript within
\* the same turn.
C1_ToolIdMatchesOneRequest ==
    \A p \in 1..Len(messages) :
        messages[p].role = "tool" =>
            Cardinality(PrecedingRequests(p, messages[p].tool_call_id)) = 1

-----------------------------------------------------------------------------
(* C2 *)

\* C2: when the health probe answers a status other than 200 or raises, the
\* turn is over at once: the probe is the turn's only operation (no session is
\* opened, no tools are listed, no model is called) and the transcript is the
\* one before the turn plus exactly the user message.
C2_ProbeFailureAbortsTurn ==
    HealthFailed =>
        /\ pc = "idle"
        /\ Len(events) = 1
        /\ transport = "none" /\ session = "none"
        /\ Len(messages) = Len(before) + 1
        /\ SubSeq(messages, 1, Len(before)) = before
        /\ messages[Len(messages)].role = "user"

C2_Witness ==
    /\ HealthFailed
    /\ Len(before) > 0
    /\ st_errors # <<>>

-----------------------------------------------------------------------------
(* C3 *)

\* The content lines 128 and 137-146 build from the outcome of a tool call.
ExpectedToolContent(tool_call, outcome) ==
    IF outcome.raised
    THEN <<"Tool ", tool_call.name, " call failed: ">> \o outcome.text
    ELSE FormatOutput(outcome.content)

\* The outcome session.call_tool had for the i-th tool call of the turn.
OutcomeOf(i) ==
    LET e == CHOOSE j \in EventsOf("tool_done") : events[j].index = i
    IN  events[e].outcome

SecondCallReached == pc = "llm2" \/ \E i \in ModelCalls : events[i].call = 2

\* C3: when the first response held k >= 1 tool calls and the second model
\* call is reached, the turn appended exactly k tool messages, the i-th one
\* answering the i-th requested call (its identifier, and the text of that
\* call's result or failure), whatever mix of invocations failed.
C3_OneToolMessagePerCallInOrder ==
    (tool_calls # <<>> /\ SecondCallReached) =>
        /\ Len(TurnToolMessages) = Len(tool_calls)
        /\ \A i \in 1..Len(tool_calls) :
              /\ Len(TurnMessages) >= 2 + i
              /\ TurnMessages[2 + i] = TurnToolMessages[i]
              /\ TurnToolMessages[i].tool_call_id = tool_calls[i].id
              /\ TurnToolMessages[i].content =
                     ExpectedToolContent(tool_calls[i], OutcomeOf(i))

C3_Witness ==
    /\ pc = "llm2"
    /\ Len(tool_calls) = 2
    /\ tool_calls[1].id # tool_calls[2].id
    /\ OutcomeOf(1).raised
    /\ ~OutcomeOf(2).raised

-----------------------------------------------------------------------------
(* C7 *)

\* The operations of lines 61-174 whose failure reaches the top-level handler.
AbortingOps == {"sse_client", "initialize", "list_tools", "llm"}

IsAgentError(m) ==
    /\ m.role = "assistant"
    /\ m.content # <<>>
    /\ Head(m.content) = "[agent error] "

\* C7: once the probe has succeeded, a failure of the session open,
\* initialize, list_tools, the first or the second model call is the turn's
\* last operation (only the contexts are left after it), and the turn ends
\* with exactly one synthetic assistant message, embedding the error text, as
\* the last transcript entry, all earlier entries kept; the client is then
\* idle again, ready for the next input.
C7_FailureAfterProbeEndsTurn ==
    \A i \in 1..Len(events) :
        (events[i].raised /\ events[i].op \in AbortingOps) =>
            /\ HealthSucceeded
            /\ exc # NoExc
            /\ pc \in {"exit", "idle"}
            /\ IF pc = "exit"
               THEN /\ i = Len(events)
                    /\ \A n \in 1..Len(TurnMessages) : ~IsAgentError(TurnMessages[n])
               ELSE /\ i = Len(events) - 1
                    /\ events[Len(events)].op = "exit"
                    /\ messages[Len(messages)] =
                         [role |-> "assistant", content |-> <<"[agent error] ">> \o exc]
                    /\ Cardinality({n \in 1..Len(TurnMessages) :
                                       IsAgentError(TurnMessages[n])}) = 1
                    /\ events[i].op = "llm" =>
                         SubSeq(messages, 1, Len(messages) - 1) = events[i].messages
                    /\ events[i].op # "llm" => Len(TurnMessages) = 2

C7_Witness ==
    /\ pc = "idle"
    /\ \E i \in ModelCalls : events[i].call = 2 /\ events[i].raised
    /\ Len(TurnToolMessages) = 2

-----------------------------------------------------------------------------
(* C8 *)

CallEvents == SelectSeq(events, LAMBDA e : e.op = "call_tool")

LoopLeft == tool_calls # <<>> /\ pc \in {"llm2", "exit", "idle"}

\* C8: a failure inside the loop over the tool calls never aborts the turn.
\* Every requested call is invoked once, in order, under the name the model
\* gave (served by the backend or not) and with its parsed arguments,
\* malformed ones as the empty object; a raising invocation leaves a tool
\* message with the failure text; the only way from the loop is the second
\* model call, and nothing but that call can raise in such a turn.
C8_ToolFailuresNeverAbort ==
    tool_calls # <<>> =>
        /\ pc \in {"call_tool", "await_tool", "llm2", "exit", "idle"}
        /\ \A i \in 1..Len(CallEvents) :
              /\ CallEvents[i].index = i
              /\ CallEvents[i].name = tool_calls[i].name
              /\ CallEvents[i].args =
                    (IF tool_calls[i].arguments = MalformedArguments
                     THEN {} ELSE {<<"city", "Paris">>})
        /\ \A j \in EventsOf("tool_done") :
              events[j].raised =>
                  /\ Len(TurnMessages) >= 2 + events[j].index
                  /\ TurnMessages[2 + events[j].index] =
                      [role |-> "tool",
                       tool_call_id |-> tool_calls[events[j].index].id,
                       content |-> <<"Tool ", tool_calls[events[j].index].name,
                                     " call failed: ">> \o events[j].outcome.text]
        /\ LoopLeft => Len(CallEvents) = Len(tool_calls)
        /\ (tool_calls # <<>> /\ pc \in {"exit", "idle"}) =>
              \E i \in ModelCalls : events[i].call = 2
        /\ exc # NoExc =>
              \E i \in ModelCalls : events[i].call = 2 /\ events[i].raised

C8_Witness ==
    /\ pc = "idle"
    /\ exc = NoExc
    /\ Len(tool_calls) = 2
    /\ tool_calls[1].arguments = MalformedArguments
    /\ tool_calls[2].name \notin mcp_tools
    /\ OutcomeOf(1).raised
    /\ OutcomeOf(2).raised

-----------------------------------------------------------------------------
(* C9 *)

SuccessfulTurnWithoutTools ==
    TurnOver /\ HealthSucceeded /\ exc = NoExc /\ tool_calls = <<>>

\* C9: a successful turn whose first response holds no tool call leaves the
\* transcript equal to the one before the turn followed by the user message
\* and one assistant message whose content is the content the model returned,
\* and made exactly one model call.
C9_DirectReplyRoundTrip ==
    SuccessfulTurnWithoutTools =>
        /\ Cardinality(ModelCalls) = 1
        /\ \A i \in ModelCalls :
              /\ events[i].response.tool_calls = <<>>
              /\ messages = before \o
                    <<messages[Len(before) + 1],
                      [role |-> "assistant", content |-> events[i].response.content]>>
        /\ messages[Len(before) + 1].role = "user"

C9_Witness ==
    /\ SuccessfulTurnWithoutTools
    /\ messages[Len(messages)].content = <<"It is sunny.">>

-----------------------------------------------------------------------------
(* C10 *)

\* C10: the streaming session lives inside one turn. A turn opens at most one
\* session, and only after a successful probe; list_tools and call_tool run
\* only on the open session; whenever no turn is running (after normal
\* completion or after any failure) no session and no transport is open, so a
\* turn starts without one and opens its own.
C10_SessionScopedToTurn ==
    /\ Cardinality(EventsOf("sse_client")) <= 1
    /\ Cardinality(EventsOf("session_open")) <= 1
    /\ \A i \in EventsOf("sse_client") \cup EventsOf("session_open") :
          i > 1 /\ HealthSucceeded
    /\ \A i \in EventsOf("list_tools") \cup EventsOf("call_tool") :
          /\ events[i].session = "open"
          /\ \E j \in EventsOf("session_open") : j < i
    /\ pc = "await_tool" => session = "open"
    /\ pc \in {"idle", "probe", "sse_client"} =>
          session # "open" /\ transport # "open"
    /\ session = "open" => transport = "open"

C10_Witness ==
    /\ pc = "idle"
    /\ session = "closed"
    /\ transport = "closed"
    /\ exc # NoExc
    /\ Len(before) > 0

-----------------------------------------------------------------------------
(* Vocabulary of the properties of the tools *)

ForecastDone == s_pc = "done" /\ tool = "get_forecast"

Min(a, b) == IF a < b THEN a ELSE b

\* A bound on a number of lines: a negative bound allows no line.
AtMost(n) == IF n < 0 THEN 0 ELSE n

-----------------------------------------------------------------------------
(* C4 *)

\* C4: for every provider response and every value of days, get_forecast
\* returns at most min(days, 5) forecast lines, the dates of the lines are
\* pairwise distinct, and the lines stand in the order of the provider's list.
C4_AtMostMinDaysFiveDistinctInOrder ==
    ForecastDone =>
        /\ Len(result.lines) <= AtMost(Min(days_arg, 5))
        /\ \A i, j \in 1..Len(result.lines) :
              i < j => /\ result.lines[i].date # result.lines[j].date
                       /\ result.lines[i].entry < result.lines[j].entry

-----------------------------------------------------------------------------
(* C5 *)

\* C5: get_forecast called with days = 0 or a negative days returns the
\* header and no forecast line, and does not fail, whatever non-empty list
\* the provider returned.
C5_NonPositiveDaysGivesNoLine ==
    (ForecastDone /\ days_arg <= 0 /\ fetched = [kind |-> "json", text |-> "full"]
        /\ pos > 0 /\ first_pos # [d \in Dates |-> 0]) =>
        /\ ~result.raised
        /\ result.text = <<"Forecast for ", "Paris", ":\n">>
        /\ result.lines = <<>>

-----------------------------------------------------------------------------
(* C6 *)

ErrorPrefixes ==
    {"Error fetching weather: ", "Error fetching forecast: ", "An error occurred: "}

\* C6: neither tool raises to its caller. Whatever the fetch met (a payload,
\* well formed or not, an HTTP error status, another exception, no API key)
\* the call ends by returning a text; when the fetch failed, the text is an
\* error text that embeds the provider's error body or the exception message;
\* a malformed payload that makes the tool fail gives an error text too.
C6_ToolsReturnTextNeverRaise ==
    s_pc = "done" =>
        /\ ~result.raised
        /\ result.text # <<>>
        /\ fetched.kind = "http_error" =>
              result.text = <<IF tool = "get_forecast" THEN "Error fetching forecast: "
                              ELSE "Error fetching weather: ", fetched.text>>
        /\ fetched.kind \in {"exception", "no_key"} =>
              result.text = <<"An error occurred: ", fetched.text>>
        /\ OPENWEATHER_API_KEY = "" =>
              result.text = <<"An error occurred: ", "OPENWEATHER_API_KEY is not set.">>
        /\ (fetched.kind = "json" /\ fetched.text = "other") =>
              result.text[1] = "An error occurred: "
        /\ result.text[1] \in ErrorPrefixes => result.lines = <<>>

C6_Witness ==
    /\ s_pc = "done"
    /\ tool = "get_current_weather"
    /\ fetched.kind = "exception"
    /\ result.text[1] = "An error occurred: "

-----------------------------------------------------------------------------
(* C11 *)

\* The backend root of a configured URL <backend-root>/mcp.
BackendRoot(url) == SubSeq(url, 1, Len(url) - Len(<<"/", "m", "c", "p">>))

\* C11: for every configured backend URL <backend-root>/mcp, the default
\* included, the health probe is sent to exactly <backend-root>/health.
C11_ProbeGoesToRootHealth ==
    probed_url # <<>> =>
        probed_url = BackendRoot(SERVER_URL) \o <<"/", "h", "e", "a", "l", "t", "h">>

-----------------------------------------------------------------------------
(* C12 *)

\* The tool invocations started and not yet completed.
Outstanding == Cardinality(EventsOf("call_tool")) - Cardinality(EventsOf("tool_done"))

\* C12: the tool calls of a response run one at a time in response order. At
\* most one invocation is outstanding at any moment; the n-th invocation to
\* start is the n-th requested call, and it starts right after invocation
\* n - 1 has completed (by a result or a captured failure); while it is
\* outstanding the turn holds the tool messages of the calls before it, that
\* of call n - 1 included, and no other.
C12_OneToolCallAtATime ==
    /\ Outstanding \in {0, 1}
    /\ (Outstanding = 1) <=> (pc = "await_tool")
    /\ \A i \in EventsOf("call_tool") :
          LET n == Cardinality({j \in EventsOf("call_tool") : j <= i})
          IN  /\ events[i].index = n
              /\ events[i].name = tool_calls[n].name
              /\ n > 1 => /\ events[i - 1].op = "tool_done"
                          /\ events[i - 1].index = n - 1
              /\ Len(TurnToolMessages) >= n - 1
    /\ pc = "await_tool" =>
          /\ events[Len(events)].op = "call_tool"
          /\ Len(TurnToolMessages) = events[Len(events)].index - 1

C12_Witness ==
    /\ pc = "await_tool"
    /\ events[Len(events)].index = 2
    /\ Len(TurnToolMessages) = 1
    /\ OutcomeOf(1).raised

-----------------------------------------------------------------------------
(* C13 *)

\* The first model response of the turn arrived and requests tool calls.
ToolTurn ==
    \E i \in ModelCalls : /\ events[i].call = 1
                          /\ ~events[i].raised
                          /\ events[i].response.tool_calls # <<>>

\* The transcript once every requested call has its tool message: what the
\* turn found, the user message, the assistant message and k tool messages.
TranscriptAfterTools == SubSeq(messages, 1, Len(before) + 2 + Len(tool_calls))

\* C13: in a turn whose first model response has tool calls, two model calls
\* are issued and no more. The first carries the schemas of the discovered
\* tools and tool_choice auto. The second carries no tool schemas, is issued
\* after every requested call has completed and has its tool message in the
\* transcript, and receives that transcript; its content is appended as the
\* final assistant message. A turn that is over has issued both.
C13_TwoModelCallsInToolTurn ==
    ToolTurn =>
        /\ \A i, j \in ModelCalls : events[i].call = events[j].call => i = j
        /\ \A i \in ModelCalls :
              \/ /\ events[i].call = 1
                 /\ events[i].tools =
                        {[type |-> "function", name |-> t, strict |-> TRUE] :
                            t \in mcp_tools}
                 /\ events[i].tools # {}
                 /\ events[i].tool_choice = "auto"
              \/ /\ events[i].call = 2
                 /\ events[i].tools = {}
                 /\ events[i].tool_choice # "auto"
                 /\ \A n \in 1..Len(tool_calls) :
                       \E j \in EventsOf("tool_done") :
                           j < i /\ events[j].index = n
                 /\ Len(messages) >= Len(before) + 2 + Len(tool_calls)
                 /\ events[i].messages = TranscriptAfterTools
                 /\ \A n \in 1..Len(tool_calls) :
                       /\ events[i].messages[Len(before) + 2 + n].role = "tool"
                       /\ events[i].messages[Len(before) + 2 + n].tool_call_id
                              = tool_calls[n].id
                 /\ ~events[i].raised =>
                       messages = Append(TranscriptAfterTools,
                                         [role |-> "assistant",
                                          content |-> events[i].response.content])
        /\ pc \in {"exit", "idle"} => Cardinality(ModelCalls) = 2

C13_Witness ==
    /\ TurnOver
    /\ ToolTurn
    /\ Len(tool_calls) = 2
    /\ Cardinality(ModelCalls) = 2
    /\ \E i \in ModelCalls : events[i].call = 2 /\ ~events[i].raised
    /\ messages[Len(messages)].role = "assistant"
    /\ Len(messages) = Len(before) + 5

-----------------------------------------------------------------------------
(* C14 *)

\* The content of the first model response of the turn.
FirstResponseContent ==
    LET i == CHOOSE i \in ModelCalls : events[i].call = 1
    IN  events[i].response.content

Roles(ms) == [i \in 1..Len(ms) |-> ms[i].role]

\* C14: in a turn with k >= 1 tool calls the assistant message carrying the
\* content of the first model response, empty or not, is appended right after
\* the user message and before every tool message of the turn; a turn that
\* ends without an agent failure has extended the transcript by exactly
\* user, assistant, tool x k, assistant, in that order.
C14_AssistantBeforeToolMessages ==
    ToolTurn =>
        /\ Len(TurnMessages) >= 2
        /\ TurnMessages[1].role = "user"
        /\ TurnMessages[2] = [role |-> "assistant", content |-> FirstResponseContent]
        /\ \A n \in 1..Len(TurnMessages) : TurnMessages[n].role = "tool" => n > 2
        /\ (TurnOver /\ exc = NoExc) =>
              Roles(TurnMessages) =
                  <<"user", "assistant">>
                      \o [n \in 1..Len(tool_calls) |-> "tool"]
                      \o <<"assistant">>

C14_Witness ==
    /\ TurnOver
    /\ ToolTurn
    /\ exc = NoExc
    /\ Len(tool_calls) = 2
    /\ \A n \in 1..Len(tool_calls) : ~OutcomeOf(n).raised
    /\ FirstResponseContent = None
    /\ Roles(TurnMessages) = <<"user", "assistant", "tool", "tool", "assistant">>

-----------------------------------------------------------------------------
(* C15 *)

IsPrefix(s, t) == Len(s) <= Len(t) /\ SubSeq(t, 1, Len(s)) = s

\* C15: the transcript is append-only. Every step of a turn, on the success
\* and the failure paths alike, and the first step of the next turn leave the
\* entries already present unchanged and in place: the transcript before a
\* step is a prefix of the transcript after it, hence the transcript at any
\* earlier point is a prefix of the transcript at any later point.
C15_TranscriptAppendOnly == [][IsPrefix(messages, messages')]_vars

C15_Witness ==
    /\ TurnOver
    /\ exc # NoExc
    /\ before # <<>>
    /\ Len(TurnMessages) >= 2
    /\ IsPrefix(before, messages)

-----------------------------------------------------------------------------
(* C16 *)

\* The distinct dates of the provider entries read by the loop; when the loop
\* ran to the end of the list these are the distinct dates of the list, and
\* when it left by break the list has at least as many.
DatesRead == {d \in Dates : first_pos[d] # 0}

\* get_forecast returned its header: the fetch gave a payload and no entry
\* read was malformed.
ForecastSucceeded ==
    /\ ForecastDone
    /\ fetched.kind = "json"
    /\ result.text = <<"Forecast for ", "Paris", ":\n">>

\* C16: for days >= 1 and a successful provider response get_forecast returns
\* exactly min(days, 5, number of distinct dates) lines; the i-th line is for
\* the i-th distinct date of the list and is built from the first entry that
\* has this date; and when the days-th (at most fifth) distinct date has its
\* line, its entry is the last entry read.
C16_OneLinePerFirstDistinctDates ==
    (ForecastSucceeded /\ days_arg >= 1) =>
        LET lines == result.lines
            n == Min(Min(days_arg, 5), Cardinality(DatesRead))
        IN  /\ Len(lines) = n
            /\ \A i \in 1..Len(lines) :
                  /\ lines[i].date \in DatesRead
                  /\ lines[i].entry = first_pos[lines[i].date]
                  /\ Cardinality({d \in DatesRead : first_pos[d] <= lines[i].entry}) = i
            /\ Len(lines) = Min(days_arg, 5) => pos = lines[Len(lines)].entry
            /\ pos <= MaxItems

C16_Witness ==
    /\ ForecastSucceeded
    /\ days_arg = 7
    /\ Len(result.lines) = 5
    /\ result.lines[5].entry = 6
    /\ pos = 6

-----------------------------------------------------------------------------
(* C17 *)

UserMessagesOfTurn == {n \in 1..Len(TurnMessages) : TurnMessages[n].role = "user"}

\* How a turn that is over has left the transcript.
TurnEndsWell ==
    TurnOver =>
        /\ UserMessagesOfTurn = {1}
        /\ HealthSucceeded => messages[Len(messages)].role = "assistant"
        /\ messages[Len(messages)].role # "assistant" =>
              /\ HealthFailed
              /\ Len(TurnMessages) = 1

\* C17: every call of run_agent_turn terminates, and it has then appended
\* exactly one user message; when the health probe of the turn succeeded the
\* last transcript entry at the end of the turn is an assistant message; a
\* turn that ends with another last entry was aborted by the health probe.
C17_TurnTerminatesWithAssistant ==
    /\ []TurnEndsWell
    /\ (pc # "idle") ~> (pc = "idle")

C17_Witness ==
    /\ TurnOver
    /\ HealthSucceeded
    /\ before # <<>>
    /\ before[Len(before)].role = "user"
    /\ messages[Len(messages)].role = "assistant"
    /\ UserMessagesOfTurn = {1}

=============================================================================
